---- MODULE Spec2Model ----
(***************************************************************************)
(* Model of update_pkgbuild_keyguard_bin.py: the release info extractor,   *)
(* the PKGBUILD updater and the orchestrating main().                      *)
(*                                                                         *)
(* Text representation.  A Python str is a sequence of tokens, each token  *)
(* standing for a fixed non-empty run of characters that contains neither  *)
(* a newline nor a backslash ("pkgver=", "1", ".", "sha256:", ...).  The   *)
(* token alphabet is chosen so that a character string has one             *)
(* tokenisation only; startswith / endswith / regex matching on characters *)
(* then coincide with the same operations on tokens.  A file's content is  *)
(* the sequence of its lines (content.split("\n")), so a content always    *)
(* has at least one line and a trailing newline shows as a last empty line.*)
(* Values delivered by the release API are git tag names and hex digests:  *)
(* they hold no backslash and no newline, so a replacement string handed   *)
(* to re.subn is inserted as written.                                      *)
(***************************************************************************)
EXTENDS Integers, Sequences, FiniteSets, TLC

VARIABLES
    pc,               \* where main stands: parse_args, read, fetch, extract, update,
                      \* open, write, exit
    argv,             \* the positional command line arguments
    fs,               \* the file behind each path: its content, or Absent
    content,          \* main's content, the text read from args.input
    release,          \* main's release, the payload fetch_latest_release returned
    info,             \* the result of extract_release_info
    updated_content,  \* main's updated_content, the result of update_pkgbuild
    stdout,           \* the messages printed so far
    status            \* the exit status of the process, Running until it ends

vars == <<pc, argv, fs, content, release, info, updated_content, stdout, status>>

(***************************************************************************)
(* Bounds                                                                  *)
(***************************************************************************)
MaxAssets == 3
MaxCopies == 2

(***************************************************************************)
(* String helpers (str.startswith, str.endswith, slicing)                  *)
(***************************************************************************)
StartsWith(s, p) == Len(s) >= Len(p) /\ SubSeq(s, 1, Len(p)) = p

EndsWith(s, p) == Len(s) >= Len(p) /\ SubSeq(s, Len(s) - Len(p) + 1, Len(s)) = p

Digits == {"0", "1", "2", "3", "5"}

V100 == <<"1", ".", "0", ".", "0">>

V101 == <<"1", ".", "0", ".", "1">>

(***************************************************************************)
(* extract_release_info                                                    *)
(***************************************************************************)
X86Suffix == <<"-linux", "-x86_64.tar.gz">>

Aarch64Suffix == <<"-linux", "-aarch64.tar.gz">>

\* dict.get(key, default) on a dict modelled as a record with a "keys" field
HasKey(d, k) == k \in d.keys

\* asset.get("name", "")
AssetName(asset) == IF HasKey(asset, "name") THEN asset.name ELSE << >>

\* asset.get("digest", "")
AssetDigest(asset) == IF HasKey(asset, "digest") THEN asset.digest ELSE << >>

\* The scan of lines 69-77, one asset per step; 0 stands for None, otherwise the
\* index of the asset the variable is bound to.
RECURSIVE ScanAssetsFirstWins(_, _, _, _)
ScanAssetsFirstWins(assets, i, x, a) ==
    IF i > Len(assets) THEN [x86_64_asset |-> x, aarch64_asset |-> a]
    ELSE IF EndsWith(AssetName(assets[i]), X86Suffix)
         THEN ScanAssetsFirstWins(assets, i + 1, IF x = 0 THEN i ELSE x, a)
    ELSE IF EndsWith(AssetName(assets[i]), Aarch64Suffix)
         THEN ScanAssetsFirstWins(assets, i + 1, x, IF a = 0 THEN i ELSE a)
    ELSE ScanAssetsFirstWins(assets, i + 1, x, a)

RECURSIVE ScanAssets(_, _, _, _)
ScanAssets(assets, i, x, a) ==
    IF i > Len(assets) THEN [x86_64_asset |-> x, aarch64_asset |-> a]
    ELSE IF EndsWith(AssetName(assets[i]), X86Suffix)
         THEN ScanAssets(assets, i + 1, i, a)
    ELSE IF EndsWith(AssetName(assets[i]), Aarch64Suffix)
         THEN ScanAssets(assets, i + 1, x, i)
    ELSE ScanAssets(assets, i + 1, x, a)

\* \d+ : the position just after the maximal run of digits starting at i
RECURSIVE DigitsEnd(_, _)
DigitsEnd(s, i) ==
    IF i <= Len(s) /\ s[i] \in Digits THEN DigitsEnd(s, i + 1) ELSE i

\* Keyguard-(\d+\.\d+\.\d+)-linux matched at position i; the end of group 1,
\* or 0 when there is no match at i.
VersionMatchAt(s, i) ==
    LET b == DigitsEnd(s, i + 1)
        c == DigitsEnd(s, b + 1)
        d == DigitsEnd(s, c + 1)
    IN  IF /\ s[i] = "Keyguard-"
           /\ b > i + 1 /\ b <= Len(s) /\ s[b] = "."
           /\ c > b + 1 /\ c <= Len(s) /\ s[c] = "."
           /\ d > c + 1 /\ d <= Len(s) /\ s[d] = "-linux"
        THEN d - 1 ELSE 0

\* re.search(r"Keyguard-(\d+\.\d+\.\d+)-linux", name): leftmost match
VersionSearch(s) ==
    LET hits == {i \in 1..Len(s) : VersionMatchAt(s, i) > 0}
    IN  IF hits = {} THEN [found |-> FALSE, group1 |-> << >>]
        ELSE LET i == CHOOSE k \in hits : \A j \in hits : k <= j
             IN  [found |-> TRUE, group1 |-> SubSeq(s, i + 1, VersionMatchAt(s, i))]

\* the nested extract_sha256 of lines 91-95
DigestOkAnyAlgorithm(asset) == AssetDigest(asset) # << >>

DigestOk(asset) == StartsWith(AssetDigest(asset), <<"sha256:">>)

ExtractSha256KeepPrefix(asset) == AssetDigest(asset)

ExtractSha256(asset) == Tail(AssetDigest(asset))

Failure(msg) ==
    [ok |-> FALSE, err |-> msg, version |-> << >>, release_tag |-> << >>,
     sha256_x86_64 |-> << >>, sha256_aarch64 |-> << >>]

ExtractReleaseInfo(rel) ==
    IF ~HasKey(rel, "tag_name") \/ rel.tag_name = << >>
    THEN Failure("Release tag not found in API response")
    ELSE IF ~HasKey(rel, "assets") \/ rel.assets = << >>
    THEN Failure("No assets found in release")
    ELSE LET found == ScanAssets(rel.assets, 1, 0, 0)
             x == found.x86_64_asset
             a == found.aarch64_asset
         IN  IF x = 0 THEN Failure("Linux x86_64 artifact not found in release")
             ELSE IF a = 0 THEN Failure("Linux aarch64 artifact not found in release")
             ELSE LET version_match == VersionSearch(rel.assets[x].name)
                  IN  IF ~version_match.found
                      THEN Failure("Could not extract version from asset name")
                      ELSE IF ~DigestOk(rel.assets[x])
                      THEN Failure("SHA256 digest not found for asset x86_64")
                      ELSE IF ~DigestOk(rel.assets[a])
                      THEN Failure("SHA256 digest not found for asset aarch64")
                      ELSE [ok |-> TRUE, err |-> "",
                            version |-> version_match.group1,
                            release_tag |-> rel.tag_name,
                            sha256_x86_64 |-> ExtractSha256(rel.assets[x]),
                            sha256_aarch64 |-> ExtractSha256(rel.assets[a])]

(***************************************************************************)
(* update_pkgbuild                                                         *)
(***************************************************************************)
\* ^pkgver=.+$ (re.MULTILINE): a whole line "pkgver=" followed by >= 1 character
IsPkgverLine(line) == StartsWith(line, <<"pkgver=">>) /\ Len(line) > 1

\* ^pkgrel=.+$
IsPkgrelLine(line) == StartsWith(line, <<"pkgrel=">>) /\ Len(line) > 1

\* ^_releaseTag=.+$
IsReleaseTagLine(line) == StartsWith(line, <<"_releaseTag=">>) /\ Len(line) > 1

\* ^sha256sums_x86_64=\(.+\)$
IsShaX86Line(line) ==
    /\ StartsWith(line, <<"sha256sums_x86_64=", "(">>)
    /\ Len(line) >= 4
    /\ line[Len(line)] = ")"

\* ^sha256sums_aarch64=\(.+\)$
IsShaAarch64Line(line) ==
    /\ StartsWith(line, <<"sha256sums_aarch64=", "(">>)
    /\ Len(line) >= 4
    /\ line[Len(line)] = ")"

\* f"pkgver={version}"
PkgverRepl(version) == <<"pkgver=">> \o version

\* "pkgrel=1"
PkgrelRepl == <<"pkgrel=", "1">>

\* f"_releaseTag='{release_tag}'"
ReleaseTagReplUnquoted(release_tag) == <<"_releaseTag=">> \o release_tag

ReleaseTagRepl(release_tag) == <<"_releaseTag=", "'">> \o release_tag \o <<"'">>

\* f"sha256sums_x86_64=('{sha256_x86_64}')"
ShaX86ReplNoParens(sha256_x86_64) ==
    <<"sha256sums_x86_64=", "'">> \o sha256_x86_64 \o <<"'">>

ShaX86Repl(sha256_x86_64) ==
    <<"sha256sums_x86_64=", "(", "'">> \o sha256_x86_64 \o <<"'", ")">>

\* f"sha256sums_aarch64=('{sha256_aarch64}')"
ShaAarch64Repl(sha256_aarch64) ==
    <<"sha256sums_aarch64=", "(", "'">> \o sha256_aarch64 \o <<"'", ")">>

\* The five line patterns, named by the field they look for.
Matches(pattern, line) ==
    CASE pattern = "pkgver" -> IsPkgverLine(line)
      [] pattern = "pkgrel" -> IsPkgrelLine(line)
      [] pattern = "_releaseTag" -> IsReleaseTagLine(line)
      [] pattern = "sha256sums_x86_64" -> IsShaX86Line(line)
      [] pattern = "sha256sums_aarch64" -> IsShaAarch64Line(line)

\* the indices of the lines of text that the pattern matches
MatchingLines(pattern, text) == {i \in 1..Len(text) : Matches(pattern, text[i])}

\* re.subn(..., count=1): the first match only
SubnFirstOnly(pattern, repl, text) ==
    LET hits == MatchingLines(pattern, text)
    IN  [text |-> [i \in 1..Len(text) |->
                     IF i \in hits /\ (\A j \in hits : i <= j) THEN repl ELSE text[i]],
         count |-> IF hits = {} THEN 0 ELSE 1]

\* re.subn(..., flags=re.MULTILINE | re.DOTALL): .+ swallows the rest of the text
SubnDotAll(pattern, repl, text) ==
    LET hits == MatchingLines(pattern, text)
    IN  IF hits = {} THEN [text |-> text, count |-> 0]
        ELSE LET i == CHOOSE k \in hits : \A j \in hits : k <= j
             IN  [text |-> SubSeq(text, 1, i - 1) \o <<repl>>, count |-> 1]

\* re.subn(pattern, repl, text, flags=re.MULTILINE): every match is replaced and
\* counted; each pattern is anchored to one whole line.
Subn(pattern, repl, text) ==
    [text |-> [i \in 1..Len(text) |-> IF Matches(pattern, text[i]) THEN repl ELSE text[i]],
     count |-> Cardinality(MatchingLines(pattern, text))]

\* re.search(r"^pkgver=(.+)$", content, re.MULTILINE): the first matching line
CurrentVersionSearch(text) ==
    LET hits == MatchingLines("pkgver", text)
    IN  IF hits = {} THEN [found |-> FALSE, group1 |-> << >>]
        ELSE LET i == CHOOSE k \in hits : \A j \in hits : k <= j
             IN  [found |-> TRUE, group1 |-> Tail(text[i])]

UpdateFailure(msg) == [ok |-> FALSE, err |-> msg, text |-> << >>]

\* lines 141-150: the pkgrel step, given the text after the pkgver substitution
PkgrelStepAlways(current_version, version, text) ==
    Subn("pkgrel", PkgrelRepl, text)

PkgrelStepNever(current_version, version, text) ==
    [text |-> text, count |-> 1]

\* (with equal versions the code neither substitutes nor tests count: the count
\* reported for that branch is the non-zero one left by the pkgver substitution)
PkgrelStep(current_version, version, text) ==
    IF current_version # version
    THEN Subn("pkgrel", PkgrelRepl, text)
    ELSE [text |-> text, count |-> 1]

UpdatePkgbuild(text, version, release_tag, sha256_x86_64, sha256_aarch64) ==
    LET current_version_match == CurrentVersionSearch(text)
    IN  IF ~current_version_match.found
        THEN UpdateFailure("pkgver not found in PKGBUILD")
        ELSE
        LET current_version == current_version_match.group1
            s1 == Subn("pkgver", PkgverRepl(version), text)
        IN  IF s1.count = 0 THEN UpdateFailure("pkgver not found in PKGBUILD")
            ELSE
            LET s2 == PkgrelStep(current_version, version, s1.text)
            IN  IF s2.count = 0 THEN UpdateFailure("pkgrel not found in PKGBUILD")
                ELSE
                LET s3 == Subn("_releaseTag", ReleaseTagRepl(release_tag), s2.text)
                IN  IF s3.count = 0
                    THEN UpdateFailure("_releaseTag not found in PKGBUILD")
                    ELSE
                    LET s4 == Subn("sha256sums_x86_64", ShaX86Repl(sha256_x86_64), s3.text)
                    IN  IF s4.count = 0
                        THEN UpdateFailure("sha256sums_x86_64 not found in PKGBUILD")
                        ELSE
                        LET s5 == Subn("sha256sums_aarch64",
                                       ShaAarch64Repl(sha256_aarch64), s4.text)
                        IN  IF s5.count = 0
                            THEN UpdateFailure("sha256sums_aarch64 not found in PKGBUILD")
                            ELSE [ok |-> TRUE, err |-> "", text |-> s5.text]

(***************************************************************************)
(* Inputs: manifests                                                       *)
(***************************************************************************)
Fields == {"pkgver", "pkgrel", "_releaseTag", "sha256sums_x86_64", "sha256sums_aarch64"}

\* the k-th line a manifest holds for a field (odd and even copies differ)
FieldLine(f, k) ==
    CASE f = "pkgver" ->
           IF k % 2 = 1 THEN <<"pkgver=">> \o V100 ELSE <<"pkgver=">> \o V101
      [] f = "pkgrel" ->
           IF k % 2 = 1 THEN <<"pkgrel=", "5">> ELSE <<"pkgrel=", "2">>
      [] f = "_releaseTag" ->
           IF k % 2 = 1 THEN <<"_releaseTag=", "'", "v", "1", "'">>
           ELSE <<"_releaseTag=", "v", "0">>
      [] f = "sha256sums_x86_64" ->
           IF k % 2 = 1 THEN <<"sha256sums_x86_64=", "(", "'", "a", "'", ")">>
           ELSE <<"sha256sums_x86_64=", "(", "'", "a", "'", " ", "'", "b", "'", ")">>
      [] f = "sha256sums_aarch64" ->
           IF k % 2 = 1 THEN <<"sha256sums_aarch64=", "(", "'", "b", "'", ")">>
           ELSE <<"sha256sums_aarch64=", "(", "b", ")">>

FieldLines(f, n) == [k \in 1..n |-> FieldLine(f, k)]

\* lines that match none of the five patterns, some of them narrowly
NoiseLines ==
    { <<"#", " ", "Maintainer">>,
      <<"pkgrel=">>,
      <<" ", "pkgver=", "1", ".", "0", ".", "0">>,
      <<"sha256sums_x86_64=", "(", "'", "a", "'", ")", " ", "#">>,
      <<"sha256sums_aarch64=", "(", ")">>,
      <<"_releaseTag=">> }

RECURSIVE Reverse(_)
Reverse(s) == IF s = << >> THEN << >> ELSE Reverse(Tail(s)) \o <<Head(s)>>

\* A manifest: copies[f] lines for each field f, the noise lines, in file order or
\* reversed, with or without a final newline.
Build(copies, noise, reversed, final_newline) ==
    LET body == noise
                \o FieldLines("pkgver", copies["pkgver"])
                \o FieldLines("pkgrel", copies["pkgrel"])
                \o FieldLines("_releaseTag", copies["_releaseTag"])
                \o FieldLines("sha256sums_x86_64", copies["sha256sums_x86_64"])
                \o FieldLines("sha256sums_aarch64", copies["sha256sums_aarch64"])
        ordered == IF reversed THEN Reverse(body) ELSE body
    IN  IF final_newline \/ ordered = << >> THEN ordered \o << << >> >> ELSE ordered

Manifests ==
    { Build(c, n, r, nl) :
        c \in [Fields -> 0..MaxCopies],
        n \in {<< >>} \cup {<<l>> : l \in NoiseLines},
        r \in BOOLEAN, nl \in BOOLEAN }

MainManifests == { Build(c, << >>, FALSE, TRUE) : c \in [Fields -> 0..1] }

(***************************************************************************)
(* Inputs: release payloads                                                *)
(***************************************************************************)
NameX86(v) == <<"Keyguard-">> \o v \o X86Suffix

NameAarch64(v) == <<"Keyguard-">> \o v \o Aarch64Suffix

Asset(name, digest) == [keys |-> {"name", "digest"}, name |-> name, digest |-> digest]

AssetNoDigest(name) == [keys |-> {"name"}, name |-> name, digest |-> << >>]

AssetPool ==
    { Asset(NameX86(V100), <<"sha256:", "a">>),
      Asset(NameX86(V101), <<"sha256:", "c">>),
      Asset(NameX86(V101), <<"md5:", "c">>),
      AssetNoDigest(NameX86(V100)),
      Asset(<<"Keyguard-", "nightly">> \o X86Suffix, <<"sha256:", "a">>),
      Asset(<<"Keyguard-", "1", ".", "0">> \o X86Suffix, <<"sha256:", "a">>),
      Asset(NameAarch64(V100), <<"sha256:", "b">>),
      Asset(NameAarch64(V101), <<"sha256:">>),
      Asset(NameAarch64(V101), <<"sha1:", "d">>),
      AssetNoDigest(NameAarch64(V100)),
      Asset(NameX86(V100) \o <<".sig">>, <<"sha256:", "d">>),
      [keys |-> {"digest"}, name |-> << >>, digest |-> <<"sha256:", "d">>] }

TagV1 == <<"v", "1">>

TagV2 == <<"v", "2">>

\* the payloads carrying a given asset list: tag_name absent, empty or set, and,
\* for the empty list, the "assets" key absent as well
ReleasesOver(l) ==
    { [keys |-> {"tag_name", "assets"}, tag_name |-> t, assets |-> l] :
        t \in {<< >>, TagV1, TagV2} }
    \cup { [keys |-> {"assets"}, tag_name |-> << >>, assets |-> l] }
    \cup IF l = << >>
         THEN { [keys |-> {"tag_name"}, tag_name |-> t, assets |-> << >>] :
                  t \in {<< >>, TagV1} }
         ELSE {}

GoodX86 == Asset(NameX86(V101), <<"sha256:", "c">>)

GoodAarch64 == Asset(NameAarch64(V101), <<"sha256:", "d">>)

MainReleases ==
    { [keys |-> {"tag_name", "assets"}, tag_name |-> TagV2,
       assets |-> <<GoodX86, GoodAarch64>>],
      [keys |-> {"tag_name", "assets"}, tag_name |-> TagV1,
       assets |-> <<Asset(NameAarch64(V100), <<"sha256:", "b">>),
                    Asset(NameX86(V100), <<"sha256:", "a">>)>>],
      [keys |-> {"assets"}, tag_name |-> << >>, assets |-> <<GoodX86, GoodAarch64>>],
      [keys |-> {"tag_name", "assets"}, tag_name |-> TagV2, assets |-> <<GoodX86>>],
      [keys |-> {"tag_name", "assets"}, tag_name |-> TagV2,
       assets |-> <<GoodX86, AssetNoDigest(NameAarch64(V101))>>] }

\* what extract_release_info can hand to update_pkgbuild
Infos ==
    { [ok |-> TRUE, err |-> "", version |-> v, release_tag |-> t,
       sha256_x86_64 |-> hx, sha256_aarch64 |-> ha] :
        v \in {V100, V101}, t \in {TagV2},
        hx \in {<<"c">>, << >>}, ha \in {<<"d">>} }

(***************************************************************************)
(* main                                                                    *)
(***************************************************************************)
Paths == {"PKGBUILD", "PKGBUILD.new"}

\* a path with no file behind it (a content always has at least one line)
Absent == << >>

NoRelease == [keys |-> {}, tag_name |-> << >>, assets |-> << >>]

NoInfo == Failure("")

\* the exit status while the process is still running
Running == -1

Say(msg, arg) == Append(stdout, [msg |-> msg, arg |-> arg])

\* an uncaught exception: traceback on stderr, exit status 1
Abort ==
    /\ pc' = "exit"
    /\ status' = 1

\* parser.parse_args(): two positional arguments, else argparse exits with status 2
ParseArgs ==
    /\ pc = "parse_args"
    /\ IF Len(argv) = 2
       THEN pc' = "read" /\ status' = status
       ELSE pc' = "exit" /\ status' = 2
    /\ UNCHANGED <<argv, fs, content, release, info, updated_content, stdout>>

\* lines 212-214: the input is read whole
ReadInput ==
    /\ pc = "read"
    /\ stdout' = Say("Reading PKGBUILD from", <<argv[1]>>)
    /\ IF fs[argv[1]] # Absent
       THEN /\ content' = fs[argv[1]]
            /\ pc' = "fetch"
            /\ status' = status
       ELSE /\ Abort
            /\ content' = content
    /\ UNCHANGED <<argv, fs, release, info, updated_content>>

\* open() or read() raising although the file exists (permissions, bad UTF-8)
ReadInputError ==
    /\ pc = "read"
    /\ fs[argv[1]] # Absent
    /\ stdout' = Say("Reading PKGBUILD from", <<argv[1]>>)
    /\ Abort
    /\ UNCHANGED <<argv, fs, content, release, info, updated_content>>

\* lines 217-218: the request answers with some release payload
FetchLatestRelease ==
    /\ pc = "fetch"
    /\ stdout' = Say("Fetching latest release from GitHub...", << >>)
    /\ \E r \in MainReleases : release' = r
    /\ pc' = "extract"
    /\ UNCHANGED <<argv, fs, content, info, updated_content, status>>

\* URLError, timeout, or a body that is not JSON
FetchError ==
    /\ pc = "fetch"
    /\ stdout' = Say("Fetching latest release from GitHub...", << >>)
    /\ Abort
    /\ UNCHANGED <<argv, fs, content, release, info, updated_content>>

\* lines 221-226
ExtractInfo ==
    /\ pc = "extract"
    /\ LET r == ExtractReleaseInfo(release)
       IN  IF r.ok
           THEN /\ info' = r
                /\ stdout' = stdout \o
                     << [msg |-> "  Version", arg |-> r.version],
                        [msg |-> "  Release tag", arg |-> r.release_tag],
                        [msg |-> "  SHA256 (x86_64)", arg |-> r.sha256_x86_64],
                        [msg |-> "  SHA256 (aarch64)", arg |-> r.sha256_aarch64] >>
                /\ pc' = "update"
                /\ status' = status
           ELSE /\ info' = r
                /\ stdout' = stdout
                /\ Abort
    /\ UNCHANGED <<argv, fs, content, release, updated_content>>

\* lines 229-236
UpdateKeepGoing ==
    /\ pc = "update"
    /\ stdout' = Say("Updating PKGBUILD...", << >>)
    /\ LET u == UpdatePkgbuild(content, info.version, info.release_tag,
                               info.sha256_x86_64, info.sha256_aarch64)
       IN  /\ updated_content' = IF u.ok THEN u.text ELSE content
           /\ pc' = "open"
           /\ status' = status
    /\ UNCHANGED <<argv, fs, content, release, info>>

Update ==
    /\ pc = "update"
    /\ stdout' = Say("Updating PKGBUILD...", << >>)
    /\ LET u == UpdatePkgbuild(content, info.version, info.release_tag,
                               info.sha256_x86_64, info.sha256_aarch64)
       IN  IF u.ok
           THEN /\ updated_content' = u.text
                /\ pc' = "open"
                /\ status' = status
           ELSE /\ updated_content' = updated_content
                /\ Abort
    /\ UNCHANGED <<argv, fs, content, release, info>>

\* lines 239-240: open(args.output, "w") creates or truncates the file
OpenOutput ==
    /\ pc = "open"
    /\ stdout' = Say("Writing updated PKGBUILD to", <<argv[2]>>)
    /\ fs' = [fs EXCEPT ![argv[2]] = << << >> >>]
    /\ pc' = "write"
    /\ UNCHANGED <<argv, content, release, info, updated_content, status>>

\* open() raising (permissions, missing directory): nothing is created
OpenOutputError ==
    /\ pc = "open"
    /\ stdout' = Say("Writing updated PKGBUILD to", <<argv[2]>>)
    /\ Abort
    /\ UNCHANGED <<argv, fs, content, release, info, updated_content>>

\* lines 241-244: the write, the close, the last message and the return
WriteOutput ==
    /\ pc = "write"
    /\ fs' = [fs EXCEPT ![argv[2]] = updated_content]
    /\ stdout' = Say("Done!", << >>)
    /\ pc' = "exit"
    /\ status' = 0
    /\ UNCHANGED <<argv, content, release, info, updated_content>>

\* the write raising part-way (disk full): some leading lines reached the file
WriteOutputError ==
    /\ pc = "write"
    /\ \E k \in 0..Len(updated_content) :
         fs' = [fs EXCEPT ![argv[2]] =
                  IF k = 0 THEN << << >> >> ELSE SubSeq(updated_content, 1, k)]
    /\ stdout' = stdout
    /\ Abort
    /\ UNCHANGED <<argv, content, release, info, updated_content>>

Init ==
    /\ pc = "parse_args"
    /\ argv \in { <<"PKGBUILD">>, <<"PKGBUILD", "PKGBUILD">>,
                  <<"PKGBUILD", "PKGBUILD.new">>,
                  <<"PKGBUILD", "PKGBUILD.new", "PKGBUILD">> }
    /\ \E m \in MainManifests \cup {Absent}, o \in {Absent, << <<"#", " ", "stale">> >>} :
         fs = [p \in Paths |-> IF p = "PKGBUILD" THEN m ELSE o]
    /\ content = << >>
    /\ release = NoRelease
    /\ info = NoInfo
    /\ updated_content = << >>
    /\ stdout = << >>
    /\ status = Running

Next ==
    \/ ParseArgs
    \/ ReadInput
    \/ ReadInputError
    \/ FetchLatestRelease
    \/ FetchError
    \/ ExtractInfo
    \/ Update
    \/ OpenOutput
    \/ OpenOutputError
    \/ WriteOutput
    \/ WriteOutputError

Spec == Init /\ [][Next]_vars

(***************************************************************************)
(* extract_release_info on its own: every asset list up to MaxAssets        *)
(***************************************************************************)
InitExtract ==
    /\ pc = "extract"
    /\ argv = <<"PKGBUILD", "PKGBUILD.new">>
    /\ fs = [p \in Paths |-> IF p = "PKGBUILD" THEN << << >> >> ELSE Absent]
    /\ content = << << >> >>
    /\ \E n \in 0..MaxAssets : \E l \in [1..n -> AssetPool] :
         release \in ReleasesOver(l)
    /\ info = NoInfo
    /\ updated_content = << >>
    /\ stdout = << >>
    /\ status = Running

NextExtract == ExtractInfo

SpecExtract == InitExtract /\ [][NextExtract]_vars

(***************************************************************************)
(* update_pkgbuild on its own: every manifest of Manifests, every info     *)
(***************************************************************************)
InitUpdate ==
    /\ pc = "update"
    /\ argv = <<"PKGBUILD", "PKGBUILD.new">>
    /\ content \in Manifests
    /\ fs = [p \in Paths |-> IF p = "PKGBUILD" THEN content ELSE Absent]
    /\ release = NoRelease
    /\ info \in Infos
    /\ updated_content = << >>
    /\ stdout = << >>
    /\ status = Running

NextUpdate == Update

SpecUpdate == InitUpdate /\ [][NextUpdate]_vars

(***************************************************************************)
(* Properties of update_pkgbuild (checked under SpecUpdate)                *)
(***************************************************************************)
\* the update step has run
Updated == pc # "update"

UpdateSucceeded == pc = "open"

UpdateFailed == pc = "exit" /\ status = 1 /\ updated_content = << >>

HasLine(pattern, text) == \E i \in 1..Len(text) : Matches(pattern, text[i])

FirstLine(pattern, text) ==
    CHOOSE i \in 1..Len(text) :
        /\ Matches(pattern, text[i])
        /\ \A j \in 1..(i - 1) : ~Matches(pattern, text[j])

\* what follows "key=" on a line
ValueOf(line) == SubSeq(line, 2, Len(line))

\* what stands between "key=(" and the closing ")"
ListOf(line) == SubSeq(line, 3, Len(line) - 1)

Quoted(s) == <<"'">> \o s \o <<"'">>

VersionChanged == ValueOf(content[FirstLine("pkgver", content)]) # info.version

\* C1: for a manifest holding all five fields, every pkgrel line of the result is
\* exactly pkgrel=1 when the value of the (first) pkgver line differs from the new
\* version, and is the input's pkgrel line when it is equal; the update succeeds.
C1_PkgrelResetLaw ==
    (Updated /\ \A f \in Fields : HasLine(f, content)) =>
        /\ UpdateSucceeded
        /\ Len(updated_content) = Len(content)
        /\ \A i \in 1..Len(content) :
             Matches("pkgrel", content[i]) =>
                IF VersionChanged
                THEN updated_content[i] = <<"pkgrel=", "1">>
                ELSE updated_content[i] = content[i]

C1_Witness ==
    /\ UpdateSucceeded
    /\ \A f \in Fields : HasLine(f, content)
    /\ VersionChanged
    /\ \E i \in 1..Len(content) :
         content[i] = <<"pkgrel=", "5">> /\ updated_content[i] = <<"pkgrel=", "1">>

C6_Idempotent ==
    UpdateSucceeded =>
        LET again == UpdatePkgbuild(updated_content, info.version, info.release_tag,
                                    info.sha256_x86_64, info.sha256_aarch64)
        IN  again.ok /\ again.text = updated_content

C6_Witness ==
    /\ UpdateSucceeded
    /\ VersionChanged
    /\ HasLine("pkgrel", content)
    /\ \A f \in Fields :
         \E i \in 1..Len(content) :
            Matches(f, content[i]) /\ updated_content[i] # content[i]

\* C7: in a successful result the lines found by the five patterns hold the new
\* values: pkgver the new version, _releaseTag the quoted tag, the two checksum
\* lists the quoted hash, and pkgrel 1 after a version change, else what it held.
C7_RoundTrip ==
    UpdateSucceeded =>
        LET out == updated_content
        IN  /\ HasLine("pkgver", out)
            /\ \A i \in MatchingLines("pkgver", out) : ValueOf(out[i]) = info.version
            /\ HasLine("_releaseTag", out)
            /\ \A i \in MatchingLines("_releaseTag", out) :
                 ValueOf(out[i]) = Quoted(info.release_tag)
            /\ HasLine("sha256sums_x86_64", out)
            /\ \A i \in MatchingLines("sha256sums_x86_64", out) :
                 ListOf(out[i]) = Quoted(info.sha256_x86_64)
            /\ HasLine("sha256sums_aarch64", out)
            /\ \A i \in MatchingLines("sha256sums_aarch64", out) :
                 ListOf(out[i]) = Quoted(info.sha256_aarch64)
            /\ MatchingLines("pkgrel", out) = MatchingLines("pkgrel", content)
            /\ \A i \in MatchingLines("pkgrel", out) :
                 ValueOf(out[i]) = IF VersionChanged THEN <<"1">> ELSE ValueOf(content[i])

C7_Witness ==
    /\ UpdateSucceeded
    /\ VersionChanged
    /\ info.release_tag = TagV2
    /\ info.sha256_x86_64 = << >>
    /\ \E i \in 1..Len(content) :
         /\ content[i] = <<"_releaseTag=", "v", "0">>
         /\ updated_content[i] = <<"_releaseTag=", "'", "v", "2", "'">>
    /\ \E i \in 1..Len(content) :
         updated_content[i] = <<"sha256sums_x86_64=", "(", "'", "'", ")">>

\* C8: a successful result has as many lines as the input, a line that matches none
\* of the five patterns is unchanged, and a line that matches one still matches it.
C8_Frame ==
    UpdateSucceeded =>
        /\ Len(updated_content) = Len(content)
        /\ \A i \in 1..Len(content) :
             /\ (\A f \in Fields : ~Matches(f, content[i]))
                  => updated_content[i] = content[i]
             /\ \A f \in Fields :
                  Matches(f, content[i]) => Matches(f, updated_content[i])

C8_Witness ==
    /\ UpdateSucceeded
    /\ updated_content # content
    /\ \E i \in 1..Len(content) :
         content[i] = <<"pkgrel=">> /\ updated_content[i] = <<"pkgrel=">>
    /\ content[Len(content)] = << >>
    /\ Len(content) >= 7

\* the replacement a substitution writes for a field
NewLine(f) ==
    CASE f = "pkgver" -> <<"pkgver=">> \o info.version
      [] f = "pkgrel" -> <<"pkgrel=", "1">>
      [] f = "_releaseTag" -> <<"_releaseTag=">> \o Quoted(info.release_tag)
      [] f = "sha256sums_x86_64" ->
           <<"sha256sums_x86_64=", "(">> \o Quoted(info.sha256_x86_64) \o <<")">>
      [] f = "sha256sums_aarch64" ->
           <<"sha256sums_aarch64=", "(">> \o Quoted(info.sha256_aarch64) \o <<")">>

\* the substitution for field f is performed in this run
Substituted(f) == f # "pkgrel" \/ VersionChanged

\* C9 as stated: each substitution rewrites the first matching line only; a later
\* line matching the same pattern is left unchanged.
C9_FirstMatchOnly ==
    UpdateSucceeded =>
        \A f \in Fields :
            \A i \in MatchingLines(f, content) :
                i # FirstLine(f, content) => updated_content[i] = content[i]

\* C9 as amended: each substitution that is performed rewrites every line that
\* matches its pattern, the first and any later one alike, and no other line; it
\* rewrites exactly one line when exactly one line matches.
C9_EveryMatchRewritten ==
    UpdateSucceeded =>
        /\ Len(updated_content) = Len(content)
        /\ \A f \in Fields :
             Substituted(f) =>
                /\ \A i \in MatchingLines(f, content) : updated_content[i] = NewLine(f)
                /\ Cardinality(MatchingLines(f, content)) = 1 =>
                     \A i \in 1..Len(content) :
                        i # FirstLine(f, content) /\ updated_content[i] = NewLine(f)
                          => \E g \in Fields \ {f} : Matches(g, content[i])

C9_Witness ==
    /\ UpdateSucceeded
    /\ \E i, j \in 1..Len(content) :
         /\ i < j
         /\ Matches("pkgver", content[i])
         /\ Matches("pkgver", content[j])
         /\ content[j] # NewLine("pkgver")
         /\ updated_content[i] = NewLine("pkgver")
         /\ updated_content[j] = NewLine("pkgver")

(***************************************************************************)
(* Properties of extract_release_info (checked under SpecExtract)          *)
(***************************************************************************)
Extracted == pc # "extract"

ExtractSucceeded == pc = "update" /\ info.ok

\* no partial result: the failure carries no value
ExtractFailed ==
    /\ pc = "exit" /\ status = 1
    /\ ~info.ok
    /\ info.version = << >> /\ info.release_tag = << >>
    /\ info.sha256_x86_64 = << >> /\ info.sha256_aarch64 = << >>

TagPresent == "tag_name" \in release.keys /\ release.tag_name # << >>

\* the assets whose name ends with the suffix
AssetsEnding(suffix) ==
    {i \in 1..Len(release.assets) :
        "name" \in release.assets[i].keys /\ EndsWith(release.assets[i].name, suffix)}

LastOf(S) == CHOOSE i \in S : \A j \in S : j <= i

\* digits "." digits "." digits
IsXYZ(v) ==
    \E p, q \in 1..Len(v) :
        /\ 1 < p /\ p + 1 < q /\ q < Len(v)
        /\ v[p] = "." /\ v[q] = "."
        /\ \A i \in 1..Len(v) : i \notin {p, q} => v[i] \in Digits

\* the versions X.Y.Z for which "Keyguard-X.Y.Z-linux" occurs in the name
VersionsIn(name) ==
    { SubSeq(name, ik[1] + 1, ik[2]) :
        ik \in { jk \in (1..Len(name)) \X (1..Len(name)) :
                   /\ jk[1] < jk[2] /\ jk[2] < Len(name)
                   /\ name[jk[1]] = "Keyguard-"
                   /\ name[jk[2] + 1] = "-linux"
                   /\ IsXYZ(SubSeq(name, jk[1] + 1, jk[2])) } }

Sha256Digest(asset) ==
    /\ "digest" \in asset.keys
    /\ asset.digest # << >>
    /\ asset.digest[1] = "sha256:"

WithoutPrefix(digest) == SubSeq(digest, 2, Len(digest))

\* C4: a payload with a non-empty tag, exactly one x86_64 asset and exactly one
\* aarch64 asset, an x86_64 name holding Keyguard-X.Y.Z-linux and two sha256:
\* digests is extracted as (X.Y.Z, tag, x86_64 digest without the prefix, aarch64
\* digest without the prefix), wherever the two assets stand in the list.
C4_ExtractsWellFormed ==
    (/\ Extracted
     /\ TagPresent
     /\ Cardinality(AssetsEnding(X86Suffix)) = 1
     /\ Cardinality(AssetsEnding(Aarch64Suffix)) = 1
     /\ VersionsIn(release.assets[LastOf(AssetsEnding(X86Suffix))].name) # {}
     /\ Sha256Digest(release.assets[LastOf(AssetsEnding(X86Suffix))])
     /\ Sha256Digest(release.assets[LastOf(AssetsEnding(Aarch64Suffix))]))
    => LET x == release.assets[LastOf(AssetsEnding(X86Suffix))]
           a == release.assets[LastOf(AssetsEnding(Aarch64Suffix))]
       IN  /\ ExtractSucceeded
           /\ VersionsIn(x.name) = {info.version}
           /\ info.release_tag = release.tag_name
           /\ info.sha256_x86_64 = WithoutPrefix(x.digest)
           /\ info.sha256_aarch64 = WithoutPrefix(a.digest)

C4_Witness ==
    /\ ExtractSucceeded
    /\ Len(release.assets) = 3
    /\ Cardinality(AssetsEnding(X86Suffix)) = 1
    /\ Cardinality(AssetsEnding(Aarch64Suffix)) = 1
    /\ LastOf(AssetsEnding(Aarch64Suffix)) < LastOf(AssetsEnding(X86Suffix))
    /\ info.version = V101
    /\ info.release_tag = TagV2
    /\ info.sha256_x86_64 = <<"c">>
    /\ info.sha256_aarch64 = << >>

\* C5: extraction fails, with no partial result, when the tag is missing or empty,
\* the asset list is missing or empty, no name ends with the x86_64 suffix, none
\* ends with the aarch64 suffix, the selected x86_64 name holds no
\* Keyguard-X.Y.Z-linux, or a selected asset's digest is missing or not sha256:.
C5_FailsOnMalformed ==
    (/\ Extracted
     /\ \/ ~TagPresent
        \/ "assets" \notin release.keys
        \/ release.assets = << >>
        \/ AssetsEnding(X86Suffix) = {}
        \/ AssetsEnding(Aarch64Suffix) = {}
        \/ VersionsIn(release.assets[LastOf(AssetsEnding(X86Suffix))].name) = {}
        \/ ~Sha256Digest(release.assets[LastOf(AssetsEnding(X86Suffix))])
        \/ ~Sha256Digest(release.assets[LastOf(AssetsEnding(Aarch64Suffix))]))
    => ExtractFailed

C5_Witness ==
    /\ ExtractFailed
    /\ TagPresent
    /\ AssetsEnding(X86Suffix) # {}
    /\ AssetsEnding(Aarch64Suffix) # {}
    /\ VersionsIn(release.assets[LastOf(AssetsEnding(X86Suffix))].name) # {}
    /\ Sha256Digest(release.assets[LastOf(AssetsEnding(X86Suffix))])
    /\ release.assets[LastOf(AssetsEnding(Aarch64Suffix))].digest = <<"sha1:", "d">>

\* C10: when several assets end with the same architecture suffix, the last one in
\* the list is the one used: the duplicates raise no error of their own, and the
\* hash (for x86_64 also the version) returned is that of the last such asset.
C10_LastMatchWins ==
    (/\ Extracted
     /\ TagPresent
     /\ AssetsEnding(X86Suffix) # {}
     /\ AssetsEnding(Aarch64Suffix) # {}
     /\ \/ Cardinality(AssetsEnding(X86Suffix)) > 1
        \/ Cardinality(AssetsEnding(Aarch64Suffix)) > 1)
    => LET x == release.assets[LastOf(AssetsEnding(X86Suffix))]
           a == release.assets[LastOf(AssetsEnding(Aarch64Suffix))]
       IN  /\ ExtractSucceeded <=>
                (VersionsIn(x.name) # {} /\ Sha256Digest(x) /\ Sha256Digest(a))
           /\ ExtractSucceeded =>
                /\ info.version \in VersionsIn(x.name)
                /\ info.sha256_x86_64 = WithoutPrefix(x.digest)
                /\ info.sha256_aarch64 = WithoutPrefix(a.digest)

C10_Witness ==
    /\ ExtractSucceeded
    /\ release.assets =
         << Asset(NameX86(V100), <<"sha256:", "a">>),
            Asset(NameAarch64(V100), <<"sha256:", "b">>),
            Asset(NameX86(V101), <<"sha256:", "c">>) >>
    /\ info.version = V101
    /\ info.sha256_x86_64 = <<"c">>

(***************************************************************************)
(* Properties of main (checked under Spec)                                 *)
(***************************************************************************)
Messages == [i \in 1..Len(stdout) |-> stdout[i].msg]

\* what main has printed once the four stages before the write are through
BeforeWrite ==
    << "Reading PKGBUILD from", "Fetching latest release from GitHub...",
       "  Version", "  Release tag", "  SHA256 (x86_64)", "  SHA256 (aarch64)",
       "Updating PKGBUILD..." >>

\* the input was read, a payload fetched, the info extracted from it and the
\* manifest updated with it, each without an error
StagesSucceeded ==
    /\ content # << >>
    /\ release \in MainReleases
    /\ ExtractReleaseInfo(release).ok
    /\ info = ExtractReleaseInfo(release)
    /\ UpdatePkgbuild(content, info.version, info.release_tag,
                      info.sha256_x86_64, info.sha256_aarch64).ok
    /\ updated_content =
         UpdatePkgbuild(content, info.version, info.release_tag,
                        info.sha256_x86_64, info.sha256_aarch64).text
    /\ Len(Messages) >= 7
    /\ SubSeq(Messages, 1, 7) = BeforeWrite

OutputOpened == \E i \in 1..Len(stdout) : stdout[i].msg = "Writing updated PKGBUILD to"

C2_State ==
    /\ pc # "exit" <=> status = Running
    /\ pc = "exit" => status \in {0, 1, 2}
    /\ (pc = "write" \/ status = 0) => StagesSucceeded
    /\ status = 0 =>
         /\ fs[argv[2]] = updated_content
         /\ Messages = BeforeWrite \o <<"Writing updated PKGBUILD to", "Done!">>
    /\ (content # << >> /\ pc # "write" /\ status # 0 /\ ~OutputOpened) =>
         fs[argv[1]] = content

C2_Step ==
    /\ pc # "exit"
    /\ fs' # fs =>
         /\ pc \in {"open", "write"}
         /\ StagesSucceeded
         /\ \A p \in Paths : p # argv[2] => fs'[p] = fs[p]
    /\ (pc \in {"parse_args", "read", "fetch", "extract", "update"} /\ pc' = "exit") =>
         /\ status' \in {1, 2}
         /\ fs' = fs
    /\ (/\ pc = "update"
        /\ ~HasLine("pkgrel", content)
        /\ HasLine("pkgver", content)
        /\ VersionChanged) => (pc' = "exit" /\ status' = 1 /\ fs' = fs)

\* C2: the output file is opened only after the read, the fetch, the extraction and
\* the update have succeeded, in that order; a failure of any of them (a missing
\* pkgrel line with a version change included) ends the run with a non-zero status
\* and the file system untouched, so an in-place run keeps the original manifest;
\* status 0 is returned only with the whole result written.
C2_WriteOnlyAfterSuccess == [](C2_State) /\ [][C2_Step]_vars

C2_Witness ==
    /\ pc = "exit" /\ status = 1
    /\ argv = <<"PKGBUILD", "PKGBUILD">>
    /\ info.ok
    /\ ~HasLine("pkgrel", content)
    /\ \A f \in Fields \ {"pkgrel"} : HasLine(f, content)
    /\ VersionChanged
    /\ fs["PKGBUILD"] = content
    /\ Messages = BeforeWrite

====
